---- MODULE Spec2Model ----
(***************************************************************************)
(* Model of the handlers of src/routes.py for meal preferences, meal-plan  *)
(* generation, the meal-plan readers, the wellness-plan route,             *)
(* registration, the daily wellness tip and the workout log, over the      *)
(* tables of src/models.py.                                                *)
(*                                                                         *)
(* A handler that reads the database, computes and then commits is split   *)
(* at the points where another request can run in between (between the     *)
(* query and the commit; around each call to the generation service).      *)
(* A handler that only issues one query, or whose steps no claim           *)
(* interleaves, is one step.                                               *)
(*                                                                         *)
(* prefReq holds one /meal-preferences request per server worker; gen      *)
(* holds the one /meal-plan/generate request in flight, which the readers  *)
(* and the preference requests interleave with.                            *)
(*                                                                         *)
(* response is what the step just taken returned to its client; a step     *)
(* inside a handler returns nothing yet. A re-rendered form carries the    *)
(* submitted form.                                                         *)
(*                                                                         *)
(* Python's None is the empty tuple, a present value x is <<x>>.           *)
(* Of a form and of a MealPreference row the meal type and the four        *)
(* targets are modelled.                                                   *)
(***************************************************************************)
EXTENDS Integers, Sequences, FiniteSets, TLC

\* ------------------------------------------------------------------ bounds
MaxPrefRows == 2
MaxPlans == 2
MaxDays == 2
MaxProfiles == 2
MaxWellnessPlans == 2
MaxTips == 3
MaxDay == 2
MaxWorkouts == 2

\* Two registered, logged-in accounts.
Users == {1, 2}

None == << >>
Some(x) == << x >>

\* ------------------------------------------------- MealPreferenceForm
MealTypeChoices == {"breakfast", "lunch", "dinner", "snack"}
CaloriesMax == 2000
ProteinMax == 200
CarbsMax == 300
FatMax == 100

TargetFields == {"calories_target", "protein_target", "carbs_target", "fat_target"}

FieldMax(f) ==
    CASE f = "calories_target" -> CaloriesMax
      [] f = "protein_target" -> ProteinMax
      [] f = "carbs_target" -> CarbsMax
      [] f = "fat_target" -> FatMax

\* wtforms NumberRange(min, max): None fails, as does a value outside [min, max].
NumberRangeNoLower(min, max, data) ==
    /\ data # None
    /\ data[1] <= max

NumberRangeNoUpper(min, max, data) ==
    /\ data # None
    /\ data[1] >= min

NumberRange(min, max, data) ==
    /\ data # None
    /\ data[1] >= min
    /\ data[1] <= max

\* SelectField pre_validate: the submitted value must be one of the choices.
SelectValid(choice) == choice \in MealTypeChoices

\* form.validate_on_submit() for the fields modelled.
ValidateOnSubmit(form) ==
    /\ SelectValid(form.meal_type)
    /\ \A f \in TargetFields : NumberRange(0, FieldMax(f), form[f])

\* Submitted forms: the dinner form with every target at 0 and with every
\* target at its maximum, the all-zero form for a second meal type and for
\* "brunch", which is not one of the choices, and the all-zero dinner form with
\* one target missing, negative or above its maximum.
BadTargets(f) == {None, Some(0 - 1), Some(FieldMax(f) + 1)}
BaseForm(t, atMax) ==
    [meal_type |-> t,
     calories_target |-> Some(IF atMax THEN CaloriesMax ELSE 0),
     protein_target |-> Some(IF atMax THEN ProteinMax ELSE 0),
     carbs_target |-> Some(IF atMax THEN CarbsMax ELSE 0),
     fat_target |-> Some(IF atMax THEN FatMax ELSE 0)]
BaseForms ==
    {BaseForm("dinner", FALSE), BaseForm("dinner", TRUE),
     BaseForm("snack", FALSE), BaseForm("brunch", FALSE)}
Forms ==
    BaseForms \cup
    {[BaseForm("dinner", FALSE) EXCEPT ![fb[1]] = fb[2]] :
        fb \in UNION {{<<f, x>> : x \in BadTargets(f)} : f \in TargetFields}}
\* The two forms used where the preferences only have to exist.
FewForms ==
    {BaseForm("dinner", FALSE),
     [BaseForm("dinner", FALSE) EXCEPT !.calories_target = Some(CaloriesMax + 1)]}

\* --------------------------------------------------------------- state
VARIABLES
    mealPreferences,      \* MealPreference table: sequence of rows, id = index
    prefReq,              \* per server worker: its /meal-preferences request
    mealPlans,            \* MealPlan table: sequence of rows, id = index
    gen,                  \* the /meal-plan/generate request in flight
    subscription_active,  \* User.subscription_active
    wellnessProfiles,     \* WellnessProfile table
    wellnessPlans,        \* WellnessPlan table
    users,                \* User table: sequence of rows, id = index
    regReq,               \* per client: its /register request
    session,              \* per client: the id of the logged-in user, or None
    wellnessTips,         \* WellnessTip table: sequence of rows, id = index
    tipReq,               \* per server worker: its /wellness-tip request
    today,                \* the calendar day of the server's clock
    workoutLogs,          \* WorkoutLog table: sequence of rows, id = index
    exerciseProgress,     \* ExerciseProgress table: sequence of rows, id = index
    response              \* what the last step returned to its client

vars == <<mealPreferences, prefReq, mealPlans, gen, subscription_active,
          wellnessProfiles, wellnessPlans, users, regReq, session,
          wellnessTips, tipReq, today, workoutLogs, exerciseProgress, response>>

\* The state of the meal and wellness-plan handlers, and of the accounts.
planVars == <<mealPreferences, prefReq, mealPlans, gen, subscription_active,
              wellnessProfiles, wellnessPlans>>
userVars == <<users, regReq, session>>
tipVars == <<wellnessTips, tipReq, today>>
workoutVars == <<workoutLogs, exerciseProgress>>

NoResponse ==
    [route |-> "", user |-> 0, status |-> "", flash |-> "", detail |-> "",
     redirect |-> "", plan_id |-> 0, plans |-> << >>, service_called |-> FALSE,
     form |-> None, tip |-> None]

Respond(route, u, status, flash, redirect) ==
    [NoResponse EXCEPT !.route = route, !.user = u, !.status = status,
                       !.flash = flash, !.redirect = redirect]

IdlePref == [pc |-> "idle", user |-> 0, form |-> None, found |-> 0]

IdleGen ==
    [pc |-> "idle", user |-> 0, meal_plan_data |-> None,
     shopping_list_data |-> None, trace |-> << >>, reason |-> "",
     before |-> << >>]

\* ------------------------------------------------- /meal-preferences
\* MealPreference.query.filter_by(user_id=..., meal_type=...).first(): there is
\* no ORDER BY, so any matching row may be the one returned; 0 when none.
PreferenceLookup(table, u, t) ==
    LET hits == {i \in 1..Len(table) :
                    table[i].user_id = u /\ table[i].meal_type = t}
    IN IF hits = {} THEN {0} ELSE hits

\* The assignments to the preference object from the form data.
PreferenceRow(id, u, form) ==
    [id |-> id, user_id |-> u, meal_type |-> form.meal_type,
     calories_target |-> form.calories_target,
     protein_target |-> form.protein_target,
     carbs_target |-> form.carbs_target,
     fat_target |-> form.fat_target]

\* POST /meal-preferences up to the query: validation, then the lookup.
MealPreferencesSubmit(w, u, form) ==
    /\ prefReq[w].pc = "idle"
    /\ IF ValidateOnSubmit(form)
       THEN /\ \E found \in PreferenceLookup(mealPreferences, u, form.meal_type) :
                 prefReq' = [prefReq EXCEPT ![w] =
                    [pc |-> "commit", user |-> u, form |-> Some(form),
                     found |-> found]]
            /\ response' = NoResponse
       ELSE /\ prefReq' = prefReq
            /\ response' = [Respond("meal_preferences", 0, "rejected", "", "")
                               EXCEPT !.form = Some(form)]
    /\ UNCHANGED <<mealPreferences, mealPlans, gen, subscription_active,
                   wellnessProfiles, wellnessPlans>>
    /\ UNCHANGED <<userVars, tipVars, workoutVars>>

\* POST /meal-preferences from the assignments to the commit (or the rollback
\* when the commit raises).
MealPreferencesCommit(w, ok) ==
    LET r == prefReq[w]
        form == r.form[1]
    IN
    /\ r.pc = "commit"
    /\ (ok /\ r.found = 0) => Len(mealPreferences) < MaxPrefRows
    /\ IF ok
       THEN /\ mealPreferences' =
                 IF r.found = 0
                 THEN Append(mealPreferences,
                             PreferenceRow(Len(mealPreferences) + 1, r.user, form))
                 ELSE [mealPreferences EXCEPT ![r.found] =
                             PreferenceRow(r.found, r.user, form)]
            /\ response' = Respond("meal_preferences", 0, "ok",
                                   "Meal preferences updated successfully!",
                                   "meal_preferences")
       ELSE /\ mealPreferences' = mealPreferences
            /\ response' = Respond("meal_preferences", 0, "error",
                                   "Error updating meal preferences. Please try again.",
                                   "")
    /\ prefReq' = [prefReq EXCEPT ![w] = IdlePref]
    /\ UNCHANGED <<mealPlans, gen, subscription_active, wellnessProfiles,
                   wellnessPlans>>
    /\ UNCHANGED <<userVars, tipVars, workoutVars>>

\* ------------------------------------------------ generation service
\* datetime.strptime(s, '%Y-%m-%d').date(), as the day's ordinal in January
\* 2024; None where strptime raises ValueError.
strptime(s) ==
    CASE s = "2024-01-01" -> Some(1)
      [] s = "2024-01-02" -> Some(2)
      [] s = "2024-01-03" -> Some(3)
      [] OTHER -> None

\* A day-entry of the generated plan: its 'date' key holds a string or is
\* missing (None); its meals need one cup of flour.
DayEntry(d) == [date |-> d, ingredient |-> "flour", quantity |-> 1, unit |-> "cups"]

DateInputs == {Some("2024-01-01"), Some("2024-01-03"), Some("tomorrow"), None}

\* What generate_meal_plan can return: every list of at most MaxDays
\* day-entries, in any order of their dates.
RawPlans ==
    UNION {[1..n -> {DayEntry(d) : d \in DateInputs}] : n \in 0..MaxDays}

\* The outcome of one call of generate_meal_plan: a plan, or an exception.
GenerationResults ==
    {[ok |-> TRUE, plan |-> p] : p \in RawPlans} \cup {[ok |-> FALSE, plan |-> << >>]}

\* The outcomes used where the content of the plan does not matter: a one-day
\* plan, a plan without entries, a plan with an unparseable date, a plan with
\* a missing date, an exception.
FewGenerationResults ==
    {[ok |-> TRUE, plan |-> << DayEntry(Some("2024-01-01")) >>],
     [ok |-> TRUE, plan |-> << >>],
     [ok |-> TRUE, plan |-> << DayEntry(Some("tomorrow")) >>],
     [ok |-> TRUE, plan |-> << DayEntry(None) >>],
     [ok |-> FALSE, plan |-> << >>]}

RECURSIVE SumQuantity(_)
SumQuantity(plan) ==
    IF plan = << >> THEN 0
    ELSE plan[1].quantity + SumQuantity(Tail(plan))

\* generate_shopping_list: the quantities of an ingredient summed over the
\* day-entries; an empty plan yields an empty list.
Derive(data) ==
    IF data.meal_plan = << >> THEN << >>
    ELSE << [ingredient |-> "flour", unit |-> "cups",
             quantity |-> SumQuantity(data.meal_plan)] >>

\* json.dumps and json.loads: the text of a value, and the value of a text.
json_dumps(x) == << "json", x >>
json_loads(text) == text[2]

\* MealPlan.get_meal_plan: the stored text parsed back; meal_plan_data is a
\* non-null column, so the text is there.
get_meal_plan(row) == json_loads(row.meal_plan_data)

\* ------------------------------------------------ /meal-plan/generate
\* start_date and end_date from the first and the last day-entry; None where
\* the code raises (IndexError on an empty list, KeyError on a missing 'date',
\* ValueError on an unparseable one).
DateRange(data) ==
    LET plan == data.meal_plan IN
    IF plan = << >> THEN None
    ELSE LET first == plan[1].date
             last == plan[Len(plan)].date
         IN IF first = None \/ last = None THEN None
            ELSE IF strptime(first[1]) = None \/ strptime(last[1]) = None
                 THEN None
                 ELSE Some([start_date |-> strptime(first[1])[1],
                            end_date |-> strptime(last[1])[1]])

\* MealPlan(user_id=..., start_date=..., end_date=..., meal_plan_data=...,
\* shopping_list=...); the id is set by the insert.
NewMealPlanNoList(u, range, data, list) ==
    [id |-> 0, user_id |-> u, start_date |-> range.start_date,
     end_date |-> range.end_date, meal_plan_data |-> json_dumps(data),
     shopping_list |-> None]

NewMealPlan(u, range, data, list) ==
    [id |-> 0, user_id |-> u, start_date |-> range.start_date,
     end_date |-> range.end_date, meal_plan_data |-> json_dumps(data),
     shopping_list |-> json_dumps(list)]

\* db.session.add(meal_plan); db.session.commit(): one new row with the next
\* id when the commit succeeds, nothing when it raises.
CommitMealPlanUpsert(table, row, ok) ==
    LET mine == {i \in 1..Len(table) : table[i].user_id = row.user_id} IN
    IF ~ok THEN table
    ELSE IF mine = {} THEN Append(table, [row EXCEPT !.id = Len(table) + 1])
    ELSE LET i == CHOOSE i \in mine : TRUE
         IN [table EXCEPT ![i] = [row EXCEPT !.id = i]]

CommitMealPlanNoRollback(table, row, ok) ==
    Append(table, [row EXCEPT !.id = Len(table) + 1])

CommitMealPlan(table, row, ok) ==
    IF ok THEN Append(table, [row EXCEPT !.id = Len(table) + 1])
    ELSE table

\* The statements of the try block in their order: where the handler is after
\* the statement at pc has returned (ok) or raised.
NextStageSwallowsCommitError(pc, ok) ==
    IF pc = "Normalizing" THEN "Persisted"
    ELSE IF ~ok THEN "Failed"
    ELSE CASE pc = "Requested" -> "Generating"
           [] pc = "Generating" -> "Deriving"
           [] pc = "Deriving" -> "Normalizing"

NextStage(pc, ok) ==
    IF ~ok THEN "Failed"
    ELSE CASE pc = "Requested" -> "Generating"
           [] pc = "Generating" -> "Deriving"
           [] pc = "Deriving" -> "Normalizing"
           [] pc = "Normalizing" -> "Persisted"

\* POST /meal-plan/generate arrives for the logged-in user u.
GenerateRequest(u) ==
    /\ gen.pc = "idle"
    /\ gen' = [IdleGen EXCEPT !.pc = "Requested", !.user = u, !.before = mealPlans]
    /\ response' = NoResponse
    /\ UNCHANGED <<mealPreferences, prefReq, mealPlans, subscription_active,
                   wellnessProfiles, wellnessPlans>>
    /\ UNCHANGED <<userVars, tipVars, workoutVars>>

\* MealPreference.query.filter_by(user_id=current_user.id).first() and the
\* early return when there is none.
LoadPreferences ==
    LET found == \E i \in 1..Len(mealPreferences) :
                     mealPreferences[i].user_id = gen.user
    IN
    /\ gen.pc = "Requested"
    /\ gen' = [gen EXCEPT !.pc = NextStage("Requested", found),
                          !.trace = Append(@, "load_preferences"),
                          !.reason = IF found THEN "" ELSE "no_preferences"]
    /\ response' = NoResponse
    /\ UNCHANGED <<mealPreferences, prefReq, mealPlans, subscription_active,
                   wellnessProfiles, wellnessPlans>>
    /\ UNCHANGED <<userVars, tipVars, workoutVars>>

\* meal_plan_data = generate_meal_plan(preferences)
CallGenerateMealPlan(result) ==
    /\ gen.pc = "Generating"
    /\ gen' = [gen EXCEPT !.pc = NextStage("Generating", result.ok),
                          !.trace = Append(@, "generate_meal_plan"),
                          !.meal_plan_data =
                              IF result.ok THEN Some([meal_plan |-> result.plan])
                              ELSE None,
                          !.reason = IF result.ok THEN "" ELSE "generation_error"]
    /\ response' = NoResponse
    /\ UNCHANGED <<mealPreferences, prefReq, mealPlans, subscription_active,
                   wellnessProfiles, wellnessPlans>>
    /\ UNCHANGED <<userVars, tipVars, workoutVars>>

\* shopping_list_data = generate_shopping_list(meal_plan_data)
CallGenerateShoppingList(ok) ==
    /\ gen.pc = "Deriving"
    /\ gen' = [gen EXCEPT !.pc = NextStage("Deriving", ok),
                          !.trace = Append(@, "generate_shopping_list"),
                          !.shopping_list_data =
                              IF ok THEN Some(Derive(gen.meal_plan_data[1]))
                              ELSE None,
                          !.reason = IF ok THEN "" ELSE "derivation_error"]
    /\ response' = NoResponse
    /\ UNCHANGED <<mealPreferences, prefReq, mealPlans, subscription_active,
                   wellnessProfiles, wellnessPlans>>
    /\ UNCHANGED <<userVars, tipVars, workoutVars>>

\* The date range, the new MealPlan, db.session.add and db.session.commit.
SaveMealPlan(ok) ==
    LET data == gen.meal_plan_data[1]
        range == DateRange(data)
        row == NewMealPlan(gen.user, range[1], data, gen.shopping_list_data[1])
    IN
    /\ gen.pc = "Normalizing"
    /\ (range # None /\ ok) => Len(mealPlans) < MaxPlans
    /\ IF range = None
       THEN /\ gen' = [gen EXCEPT !.pc = NextStage("Normalizing", FALSE),
                                  !.trace = Append(@, "date_range"),
                                  !.reason = "date_error"]
            /\ mealPlans' = mealPlans
       ELSE /\ gen' = [gen EXCEPT !.pc = NextStage("Normalizing", ok),
                                  !.trace = @ \o << "date_range", "commit" >>,
                                  !.reason = IF ok THEN "" ELSE "storage_error"]
            /\ mealPlans' = CommitMealPlan(mealPlans, row, ok)
    /\ response' = NoResponse
    /\ UNCHANGED <<mealPreferences, prefReq, subscription_active,
                   wellnessProfiles, wellnessPlans>>
    /\ UNCHANGED <<userVars, tipVars, workoutVars>>

\* What a request that did not store a plan answers: the warning of the early
\* return, or flash(f'Error generating meal plan: {str(e)}', 'error') with the
\* text of the exception that was raised.
FailureResponse(reason) ==
    IF reason = "no_preferences"
    THEN Respond("generate_new_meal_plan", 0, "warning",
                 "Please set your meal preferences first", "meal_preferences")
    ELSE [Respond("generate_new_meal_plan", 0, "error",
                  "Error generating meal plan: ", "meal_preferences")
            EXCEPT !.detail = reason]

\* The flash and the redirect that end the request.
GenerateReturn ==
    /\ gen.pc \in {"Persisted", "Failed"}
    /\ response' =
         IF gen.pc = "Persisted"
         THEN [Respond("generate_new_meal_plan", 0, "ok",
                       "Your personalized meal plan has been generated!",
                       "view_meal_plan")
                 EXCEPT !.plan_id = Len(mealPlans)]
         ELSE FailureResponse(gen.reason)
    /\ gen' = IdleGen
    /\ UNCHANGED <<mealPreferences, prefReq, mealPlans, subscription_active,
                   wellnessProfiles, wellnessPlans>>
    /\ UNCHANGED <<userVars, tipVars, workoutVars>>

\* --------------------------------------- /meal-plan/<id> and /meal-plans
\* MealPlan.query.filter_by(id=plan_id, user_id=current_user.id)
MealPlanLookupAnyOwner(table, plan_id, u) ==
    {i \in 1..Len(table) : table[i].id = plan_id}

MealPlanLookup(table, plan_id, u) ==
    {i \in 1..Len(table) : table[i].id = plan_id /\ table[i].user_id = u}

\* GET /meal-plan/<plan_id>: the plan, or first_or_404's 404.
ViewMealPlan(u, plan_id) ==
    LET hits == MealPlanLookup(mealPlans, plan_id, u) IN
    /\ response' =
         IF hits = {}
         THEN [Respond("view_meal_plan", u, "404", "", "") EXCEPT !.plan_id = plan_id]
         ELSE [Respond("view_meal_plan", u, "200", "", "")
                 EXCEPT !.plan_id = plan_id,
                        !.plans = << mealPlans[CHOOSE i \in hits : TRUE] >>]
    /\ UNCHANGED <<mealPreferences, prefReq, mealPlans, gen, subscription_active,
                   wellnessProfiles, wellnessPlans>>
    /\ UNCHANGED <<userVars, tipVars, workoutVars>>

RECURSIVE NewestFirst(_, _)
NewestFirst(table, u) ==
    IF table = << >> THEN << >>
    ELSE LET n == Len(table)
             rest == NewestFirst(SubSeq(table, 1, n - 1), u)
         IN IF table[n].user_id = u THEN << table[n] >> \o rest ELSE rest

\* GET /meal-plans: the user's plans, newest first.
ListMealPlans(u) ==
    /\ response' = [Respond("list_meal_plans", u, "200", "", "")
                      EXCEPT !.plans = NewestFirst(mealPlans, u)]
    /\ UNCHANGED <<mealPreferences, prefReq, mealPlans, gen, subscription_active,
                   wellnessProfiles, wellnessPlans>>
    /\ UNCHANGED <<userVars, tipVars, workoutVars>>

\* ------------------------------------ subscription and /generate-plan
\* The payment provider marks the user's subscription active.
ActivateSubscription(u) ==
    /\ ~subscription_active[u]
    /\ subscription_active' = [subscription_active EXCEPT ![u] = TRUE]
    /\ response' = NoResponse
    /\ UNCHANGED <<mealPreferences, prefReq, mealPlans, gen, wellnessProfiles,
                   wellnessPlans>>
    /\ UNCHANGED <<userVars, tipVars, workoutVars>>

\* POST /questionnaire: a new WellnessProfile row; float() of a missing or
\* non-numeric height or weight, or a failing commit, raises and nothing is
\* stored.
Questionnaire(u, ok) ==
    /\ ok => Len(wellnessProfiles) < MaxProfiles
    /\ IF ok
       THEN /\ wellnessProfiles' = Append(wellnessProfiles,
                    [id |-> Len(wellnessProfiles) + 1, user_id |-> u])
            /\ response' = Respond("questionnaire", u, "ok", "", "dashboard")
       ELSE /\ wellnessProfiles' = wellnessProfiles
            /\ response' = Respond("questionnaire", u, "500", "", "")
    /\ UNCHANGED <<mealPreferences, prefReq, mealPlans, gen, subscription_active,
                   wellnessPlans>>
    /\ UNCHANGED <<userVars, tipVars, workoutVars>>

\* GET /generate-plan. result is what generate_wellness_plan does when it is
\* called: "plan", "none" (a falsy return) or "raise"; ok is whether the
\* commit succeeds.
GeneratePlan(u, result, ok) ==
    LET profile == \E i \in 1..Len(wellnessProfiles) :
                       wellnessProfiles[i].user_id = u
        stored == result = "plan" /\ ok
    IN
    /\ (subscription_active[u] /\ profile /\ stored)
          => Len(wellnessPlans) < MaxWellnessPlans
    /\ IF ~subscription_active[u]
       THEN /\ response' = Respond("generate_plan", u, "warning",
                    "Please subscribe to generate a wellness plan", "dashboard")
            /\ wellnessPlans' = wellnessPlans
       ELSE IF ~profile
       THEN /\ response' = Respond("generate_plan", u, "warning",
                    "Please complete your wellness profile first", "questionnaire")
            /\ wellnessPlans' = wellnessPlans
       ELSE IF result = "none"
       THEN /\ response' = [Respond("generate_plan", u, "error",
                    "Error generating wellness plan. Please try again.", "dashboard")
                    EXCEPT !.service_called = TRUE]
            /\ wellnessPlans' = wellnessPlans
       ELSE IF stored
       THEN /\ response' = [Respond("generate_plan", u, "ok",
                    "Your wellness plan has been generated successfully!", "plan")
                    EXCEPT !.service_called = TRUE]
            /\ wellnessPlans' = Append(wellnessPlans,
                    [id |-> Len(wellnessPlans) + 1, user_id |-> u,
                     meal_plan |-> json_dumps("meal_plan"),
                     workout_plan |-> json_dumps("workout_plan")])
       ELSE /\ response' = [Respond("generate_plan", u, "error",
                    "Sorry, there was an error generating your wellness plan. Please try again.",
                    "dashboard")
                    EXCEPT !.service_called = TRUE]
            /\ wellnessPlans' = wellnessPlans
    /\ UNCHANGED <<mealPreferences, prefReq, mealPlans, gen, subscription_active,
                   wellnessProfiles>>
    /\ UNCHANGED <<userVars, tipVars, workoutVars>>

\* ------------------------------------------------------------ /register
Clients == {"c1", "c2"}

IdleReg == [pc |-> "idle", form |-> None]

\* wtforms validators of RegistrationForm; Length's max of -1 is no maximum.
\* Email accepts the addresses of the model that have the shape of an address.
DataRequired(data) == data # ""
Length(min, max, data) == Len(data) >= min /\ (max = -1 \/ Len(data) <= max)
Email(data) == data \in {"ann@x.org", "bob@x.org"}
EqualTo(other, data) == data = other

UsernameMin == 3
UsernameMax == 50
PasswordMin == 6

RegistrationValid(form) ==
    /\ DataRequired(form.username)
    /\ Length(UsernameMin, UsernameMax, form.username)
    /\ DataRequired(form.email) /\ Email(form.email)
    /\ DataRequired(form.password)
    /\ Length(PasswordMin, -1, form.password)
    /\ DataRequired(form.confirm_password)
    /\ EqualTo(form.password, form.confirm_password)

RegForm(username, email, password, confirm) ==
    [username |-> username, email |-> email, password |-> password,
     confirm_password |-> confirm]

\* The submissions: two usernames with two addresses, and one form for each
\* validator that fails.
RegForms ==
    {RegForm(n, e, "secret1", "secret1") :
        n \in {"ann", "bob"}, e \in {"ann@x.org", "bob@x.org"}}
    \cup {RegForm("al", "ann@x.org", "secret1", "secret1"),
          RegForm("ann", "nowhere", "secret1", "secret1"),
          RegForm("ann", "ann@x.org", "short", "short"),
          RegForm("ann", "ann@x.org", "secret1", "secret2")}

\* User.query.filter_by(username=...).first() and filter_by(email=...).first()
UsernameTaken(table, username) ==
    \E i \in 1..Len(table) : table[i].username = username

EmailTaken(table, email) ==
    \E i \in 1..Len(table) : table[i].email = email

\* unique=True on User.username and on User.email: the insert of row raises
\* IntegrityError when a stored row has its username or its email.
UniqueViolationUsernameOnly(table, row) ==
    \E i \in 1..Len(table) : table[i].username = row.username

UniqueViolation(table, row) ==
    \E i \in 1..Len(table) :
        table[i].username = row.username \/ table[i].email = row.email

\* POST /register up to the first query: the redirect of a logged-in client,
\* or validation.
RegisterSubmit(c, form) ==
    /\ regReq[c].pc = "idle"
    /\ IF session[c] # None
       THEN /\ response' = Respond("register", 0, "redirect", "", "dashboard")
            /\ regReq' = regReq
       ELSE IF ~RegistrationValid(form)
       THEN /\ response' = [Respond("register", 0, "rejected", "", "")
                              EXCEPT !.form = Some(form)]
            /\ regReq' = regReq
       ELSE /\ response' = NoResponse
            /\ regReq' = [regReq EXCEPT ![c] = [pc |-> "check_username",
                                                 form |-> Some(form)]]
    /\ UNCHANGED <<users, session>>
    /\ UNCHANGED <<planVars, tipVars, workoutVars>>

\* if User.query.filter_by(username=form.username.data).first(): ...
RegisterCheckUsername(c) ==
    LET form == regReq[c].form[1] IN
    /\ regReq[c].pc = "check_username"
    /\ IF UsernameTaken(users, form.username)
       THEN /\ response' = [Respond("register", 0, "duplicate_username",
                  "Username already exists. Please choose a different one.", "")
                  EXCEPT !.form = Some(form)]
            /\ regReq' = [regReq EXCEPT ![c] = IdleReg]
       ELSE /\ response' = NoResponse
            /\ regReq' = [regReq EXCEPT ![c].pc = "check_email"]
    /\ UNCHANGED <<users, session>>
    /\ UNCHANGED <<planVars, tipVars, workoutVars>>

\* if User.query.filter_by(email=form.email.data).first(): ...
RegisterCheckEmail(c) ==
    LET form == regReq[c].form[1] IN
    /\ regReq[c].pc = "check_email"
    /\ IF EmailTaken(users, form.email)
       THEN /\ response' = [Respond("register", 0, "duplicate_email",
                  "Email already registered. Please use a different email.", "")
                  EXCEPT !.form = Some(form)]
            /\ regReq' = [regReq EXCEPT ![c] = IdleReg]
       ELSE /\ response' = NoResponse
            /\ regReq' = [regReq EXCEPT ![c].pc = "commit"]
    /\ UNCHANGED <<users, session>>
    /\ UNCHANGED <<planVars, tipVars, workoutVars>>

\* db.session.add(user); db.session.commit(); login_user(user), or the except
\* block: rollback and the flash. ok is whether the database is reachable.
RegisterCommit(c, ok) ==
    LET form == regReq[c].form[1]
        row == [id |-> Len(users) + 1, username |-> form.username,
                email |-> form.email]
    IN
    /\ regReq[c].pc = "commit"
    /\ IF ok /\ ~UniqueViolation(users, row)
       THEN /\ users' = Append(users, row)
            /\ session' = [session EXCEPT ![c] = Some(row.id)]
            /\ response' = [Respond("register", 0, "ok",
                   "Registration successful! Welcome to AI Wellness Planner.",
                   "questionnaire") EXCEPT !.user = row.id]
       ELSE /\ users' = users
            /\ session' = session
            /\ response' = [Respond("register", 0, "error",
                   "An error occurred during registration. Please try again.", "")
                   EXCEPT !.form = Some(form)]
    /\ regReq' = [regReq EXCEPT ![c] = IdleReg]
    /\ UNCHANGED <<planVars, tipVars, workoutVars>>

\* GET /logout: logout_user() and the redirect to the index page.
Logout(c) ==
    /\ session[c] # None
    /\ regReq[c].pc = "idle"
    /\ session' = [session EXCEPT ![c] = None]
    /\ response' = Respond("logout", 0, "redirect", "", "index")
    /\ UNCHANGED <<users, regReq>>
    /\ UNCHANGED <<planVars, tipVars, workoutVars>>

\* ------------------------------------------------------- /wellness-tip
TipWorkers == {"t1", "t2"}

IdleTip == [pc |-> "idle", user |-> 0, today |-> 0, tip |-> 0]

\* WellnessTip.query.filter(user_id == ..., date(created_at) == today).first():
\* the ids of the rows that match; without ORDER BY any of them may be
\* returned.
TipLookup(table, u, day) ==
    {i \in 1..Len(table) : table[i].user_id = u /\ table[i].day = day}

\* WellnessTip(user_id=...): created_at defaults to the time of the insert,
\* is_viewed to False.
NewTip(id, u, day) == [id |-> id, user_id |-> u, day |-> day, is_viewed |-> FALSE]

\* GET /wellness-tip up to the call of the tip service: today's date, the
\* query for today's tip, and for a user without one the profile check.
TipRequest(w, u) ==
    LET hits == TipLookup(wellnessTips, u, today)
        profile == \E i \in 1..Len(wellnessProfiles) :
                       wellnessProfiles[i].user_id = u
    IN
    /\ tipReq[w].pc = "idle"
    /\ IF hits # {}
       THEN /\ \E i \in hits :
                  tipReq' = [tipReq EXCEPT ![w] = [pc |-> "mark", user |-> u,
                                                   today |-> today, tip |-> i]]
            /\ response' = NoResponse
       ELSE IF ~profile
       THEN /\ tipReq' = tipReq
            /\ response' = Respond("wellness_tip", u, "warning",
                   "Please complete your wellness profile first", "questionnaire")
       ELSE /\ tipReq' = [tipReq EXCEPT ![w] = [pc |-> "generate", user |-> u,
                                                today |-> today, tip |-> 0]]
            /\ response' = NoResponse
    /\ UNCHANGED <<wellnessTips, today>>
    /\ UNCHANGED <<planVars, userVars, workoutVars>>

\* tip_data = generate_wellness_tip(profile); db.session.add(tip);
\* db.session.commit(), or the except block. ok is whether the service
\* returns and the commit succeeds.
TipGenerate(w, ok) ==
    /\ tipReq[w].pc = "generate"
    /\ ok => Len(wellnessTips) < MaxTips
    /\ IF ok
       THEN /\ wellnessTips' = Append(wellnessTips,
                   NewTip(Len(wellnessTips) + 1, tipReq[w].user, today))
            /\ tipReq' = [tipReq EXCEPT ![w].pc = "mark",
                                        ![w].tip = Len(wellnessTips) + 1]
            /\ response' = NoResponse
       ELSE /\ wellnessTips' = wellnessTips
            /\ tipReq' = [tipReq EXCEPT ![w] = IdleTip]
            /\ response' = Respond("wellness_tip", tipReq[w].user, "error",
                   "Error generating wellness tip. Please try again later.",
                   "dashboard")
    /\ today' = today
    /\ UNCHANGED <<planVars, userVars, workoutVars>>

\* if not tip.is_viewed: tip.is_viewed = True; db.session.commit(), then the
\* page with the tip. A commit that raises ends the request with a 500.
TipMarkViewed(w, ok) ==
    LET i == tipReq[w].tip IN
    /\ tipReq[w].pc = "mark"
    /\ IF wellnessTips[i].is_viewed
       THEN /\ wellnessTips' = wellnessTips
            /\ response' = [Respond("wellness_tip", tipReq[w].user, "200", "", "")
                              EXCEPT !.tip = Some(wellnessTips[i])]
       ELSE IF ok
       THEN /\ wellnessTips' = [wellnessTips EXCEPT ![i].is_viewed = TRUE]
            /\ response' = [Respond("wellness_tip", tipReq[w].user, "200", "", "")
                              EXCEPT !.tip = Some(wellnessTips'[i])]
       ELSE /\ wellnessTips' = wellnessTips
            /\ response' = Respond("wellness_tip", tipReq[w].user, "500", "", "")
    /\ tipReq' = [tipReq EXCEPT ![w] = IdleTip]
    /\ today' = today
    /\ UNCHANGED <<planVars, userVars, workoutVars>>

\* Midnight passes.
NextDay ==
    /\ today < MaxDay
    /\ today' = today + 1
    /\ response' = NoResponse
    /\ UNCHANGED <<wellnessTips, tipReq>>
    /\ UNCHANGED <<planVars, userVars, workoutVars>>

\* ------------------------------------------------------- /workout/log
\* int(s) and float(s) of a string; None where Python raises ValueError. A
\* float is held in tenths.
int(s) ==
    CASE s = "0" -> Some(0)
      [] s = "3" -> Some(3)
      [] s = "8" -> Some(8)
      [] s = "10" -> Some(10)
      [] s = "30" -> Some(30)
      [] s = "200" -> Some(200)
      [] OTHER -> None

float(s) ==
    CASE s = "0" -> Some(0)
      [] s = "2.5" -> Some(25)
      [] s = "40" -> Some(400)
      [] s = "60" -> Some(600)
      [] OTHER -> None

\* int(request.form.get(key)): a field that is missing makes int raise
\* TypeError.
IntField(raw) == IF raw = None THEN None ELSE int(raw[1])

\* int(request.form.get(key, default)): the default where the field is missing.
IntFieldOr(raw, default) == IF raw = None THEN Some(default) ELSE int(raw[1])

\* The truth value of request.form.get(key): a missing field and an empty
\* string are false.
Truthy(raw) == raw # None /\ raw[1] # ""

\* The weight_, reps_ and sets_ fields of a request, by exercise: here every
\* field of both exercises converts.
FullFields ==
    [weight |-> [squat |-> Some("40"), row |-> Some("0")],
     reps |-> [squat |-> Some("10"), row |-> Some("0")],
     sets |-> [squat |-> Some("3"), row |-> None]]

\* Row without a weight and without reps; row with reps that do not convert;
\* squat with a weight and row with sets that do not convert; all fine.
ExerciseFields ==
    {[weight |-> [squat |-> Some("60"), row |-> Some("")],
      reps |-> [squat |-> Some("8"), row |-> None],
      sets |-> [squat |-> None, row |-> None]],
     [weight |-> [squat |-> Some("60"), row |-> Some("2.5")],
      reps |-> [squat |-> Some("8"), row |-> Some("2.5")],
      sets |-> [squat |-> Some("3"), row |-> Some("3")]],
     [weight |-> [squat |-> Some("heavy"), row |-> Some("40")],
      reps |-> [squat |-> Some("8"), row |-> Some("10")],
      sets |-> [squat |-> None, row |-> Some("")]],
     FullFields}

\* The values of exercises[]: none, two, one twice.
ExerciseLists == {<< >>, << "squat", "row" >>, << "row", "row" >>}

WorkoutForm(duration, calories, exercises, fields) ==
    [duration |-> duration, calories_burned |-> calories,
     exercises |-> exercises, weight |-> fields.weight, reps |-> fields.reps,
     sets |-> fields.sets]

\* The requests: every list with every set of fields under a duration and
\* calories that convert, and requests whose duration or calories do not.
WorkoutForms ==
    {WorkoutForm(Some("30"), Some("200"), l, f) :
        l \in ExerciseLists, f \in ExerciseFields}
    \cup {WorkoutForm(Some("thirty"), Some("200"), << "squat", "row" >>, FullFields),
          WorkoutForm(None, Some("200"), << "squat", "row" >>, FullFields),
          WorkoutForm(Some("30"), Some(""), << "squat", "row" >>, FullFields)}

\* The loop over the exercises from the k-th on: the ExerciseProgress objects
\* added to the session, and whether a conversion raised (which ends the loop).
RECURSIVE ProgressRows(_, _, _)
ProgressRows(form, u, k) ==
    IF k > Len(form.exercises) THEN [raised |-> FALSE, rows |-> << >>]
    ELSE LET exercise == form.exercises[k] IN
         IF ~(Truthy(form.weight[exercise]) /\ Truthy(form.reps[exercise]))
         THEN ProgressRows(form, u, k + 1)
         ELSE LET weight == float(form.weight[exercise][1])
                  reps == int(form.reps[exercise][1])
                  sets == IntFieldOr(form.sets[exercise], 1)
              IN IF weight = None \/ reps = None \/ sets = None
                 THEN [raised |-> TRUE, rows |-> << >>]
                 ELSE LET rest == ProgressRows(form, u, k + 1)
                          row == [id |-> 0, user_id |-> u,
                                  exercise_name |-> exercise,
                                  weight |-> weight[1], reps |-> reps[1],
                                  sets |-> sets[1]]
                      IN [raised |-> rest.raised, rows |-> << row >> \o rest.rows]

\* db.session.commit() of the objects added to the session, with the next ids,
\* or db.session.rollback() when a statement of the try block raised.
PersistedNoRollback(table, pending, failed) ==
    table \o [i \in 1..Len(pending) |-> [pending[i] EXCEPT !.id = Len(table) + i]]

Persisted(table, pending, failed) ==
    IF failed THEN table
    ELSE table \o [i \in 1..Len(pending) |->
                      [pending[i] EXCEPT !.id = Len(table) + i]]

\* POST /workout/log: the WorkoutLog, the loop over the exercises, the commit,
\* or the except block. ok is whether the commit succeeds.
LogWorkout(u, form, ok) ==
    LET duration == IntField(form.duration)
        calories_burned == IntField(form.calories_burned)
        logRaised == duration = None \/ calories_burned = None
        progress == ProgressRows(form, u, 1)
        failed == logRaised \/ progress.raised \/ ~ok
        workout_log ==
            IF logRaised THEN << >>
            ELSE << [id |-> 0, user_id |-> u, duration |-> duration[1],
                     exercises |-> json_dumps(form.exercises),
                     calories_burned |-> calories_burned[1]] >>
        added == IF logRaised THEN << >> ELSE progress.rows
    IN
    /\ ~failed => Len(workoutLogs) < MaxWorkouts
    /\ workoutLogs' = Persisted(workoutLogs, workout_log, failed)
    /\ exerciseProgress' = Persisted(exerciseProgress, added, failed)
    /\ response' =
         IF failed
         THEN [Respond("log_workout", u, "error",
                       "Error logging workout. Please try again.", "log_workout")
                 EXCEPT !.form = Some(form)]
         ELSE [Respond("log_workout", u, "ok", "Workout logged successfully!",
                       "workout_progress")
                 EXCEPT !.form = Some(form)]
    /\ UNCHANGED <<planVars, userVars, tipVars>>

\* ------------------------------------------------------ specifications
\* The database after db.create_all(): every table empty, no request in
\* flight, nobody subscribed. InitWith(workers) has one slot per server worker
\* that serves /meal-preferences.
\* The accounts of users 1 and 2, each logged in from its client.
InitAccounts ==
    /\ users = << [id |-> 1, username |-> "ann", email |-> "ann@x.org"],
                  [id |-> 2, username |-> "bob", email |-> "bob@x.org"] >>
    /\ regReq = [c \in Clients |-> IdleReg]
    /\ session = [c \in Clients |-> IF c = "c1" THEN Some(1) ELSE Some(2)]

\* No tip yet, no /wellness-tip request in flight, the first day.
InitNoTips ==
    /\ wellnessTips = << >>
    /\ tipReq = [w \in TipWorkers |-> IdleTip]
    /\ today = 1

\* No workout logged yet.
InitNoWorkouts ==
    /\ workoutLogs = << >>
    /\ exerciseProgress = << >>

InitWith(workers) ==
    /\ mealPreferences = << >>
    /\ prefReq = [w \in workers |-> IdlePref]
    /\ mealPlans = << >>
    /\ gen = IdleGen
    /\ subscription_active = [u \in Users |-> FALSE]
    /\ wellnessProfiles = << >>
    /\ wellnessPlans = << >>
    /\ InitAccounts
    /\ InitNoTips
    /\ InitNoWorkouts
    /\ response = NoResponse

Init == InitWith({"w1"})

\* Two workers, so that two /meal-preferences requests can overlap.
InitPrefs == InitWith({"w1", "w2"})

\* The database once user 1 has saved dinner preferences.
InitGen ==
    /\ mealPreferences = << PreferenceRow(1, 1, BaseForm("dinner", FALSE)) >>
    /\ prefReq = [w \in {"w1"} |-> IdlePref]
    /\ mealPlans = << >>
    /\ gen = IdleGen
    /\ subscription_active = [u \in Users |-> FALSE]
    /\ wellnessProfiles = << >>
    /\ wellnessPlans = << >>
    /\ InitAccounts
    /\ InitNoTips
    /\ InitNoWorkouts
    /\ response = NoResponse

\* The preference handler alone, under every form of Forms.
NextPrefs ==
    \/ \E w \in DOMAIN prefReq, u \in Users, form \in Forms :
          MealPreferencesSubmit(w, u, form)
    \/ \E w \in DOMAIN prefReq, ok \in BOOLEAN : MealPreferencesCommit(w, ok)

SpecPrefs == InitPrefs /\ [][NextPrefs]_vars

\* The same handler served by one worker: one request after the other.
SpecForms == Init /\ [][NextPrefs]_vars

\* The generation pipeline under every plan the service can return, with the
\* readers of the MealPlan table.
NextGen ==
    \/ \E u \in Users : GenerateRequest(u)
    \/ LoadPreferences
    \/ \E result \in GenerationResults : CallGenerateMealPlan(result)
    \/ \E ok \in BOOLEAN : CallGenerateShoppingList(ok)
    \/ \E ok \in BOOLEAN : SaveMealPlan(ok)
    \/ GenerateReturn
    \/ \E u \in Users, plan_id \in 1..(Len(mealPlans) + 1) : ViewMealPlan(u, plan_id)
    \/ \E u \in Users : ListMealPlans(u)

SpecGen == InitGen /\ [][NextGen]_vars

\* Preferences, generation and the readers together, from the empty database.
Next ==
    \/ \E w \in DOMAIN prefReq, u \in Users, form \in FewForms :
          MealPreferencesSubmit(w, u, form)
    \/ \E w \in DOMAIN prefReq, ok \in BOOLEAN : MealPreferencesCommit(w, ok)
    \/ \E u \in Users : GenerateRequest(u)
    \/ LoadPreferences
    \/ \E result \in FewGenerationResults : CallGenerateMealPlan(result)
    \/ \E ok \in BOOLEAN : CallGenerateShoppingList(ok)
    \/ \E ok \in BOOLEAN : SaveMealPlan(ok)
    \/ GenerateReturn
    \/ \E u \in Users, plan_id \in 1..(Len(mealPlans) + 1) : ViewMealPlan(u, plan_id)
    \/ \E u \in Users : ListMealPlans(u)

Spec == Init /\ [][Next]_vars

\* The two generating routes and the subscription, for a user who has saved
\* preferences.
NextEntitlement ==
    \/ \E u \in Users : ActivateSubscription(u)
    \/ \E u \in Users, ok \in BOOLEAN : Questionnaire(u, ok)
    \/ \E u \in Users, result \in {"plan", "none", "raise"}, ok \in BOOLEAN :
          GeneratePlan(u, result, ok)
    \/ \E u \in Users : GenerateRequest(u)
    \/ LoadPreferences
    \/ \E result \in FewGenerationResults : CallGenerateMealPlan(result)
    \/ \E ok \in BOOLEAN : CallGenerateShoppingList(ok)
    \/ \E ok \in BOOLEAN : SaveMealPlan(ok)
    \/ GenerateReturn

SpecEntitlement == InitGen /\ [][NextEntitlement]_vars

\* The database right after db.create_all(): no account, nobody logged in.
InitRegister ==
    /\ mealPreferences = << >>
    /\ prefReq = [w \in {"w1"} |-> IdlePref]
    /\ mealPlans = << >>
    /\ gen = IdleGen
    /\ subscription_active = [u \in Users |-> FALSE]
    /\ wellnessProfiles = << >>
    /\ wellnessPlans = << >>
    /\ users = << >>
    /\ regReq = [c \in Clients |-> IdleReg]
    /\ session = [c \in Clients |-> None]
    /\ InitNoTips
    /\ InitNoWorkouts
    /\ response = NoResponse

\* Registration and logout of two clients, their requests interleaved.
NextRegister ==
    \/ \E c \in Clients, form \in RegForms : RegisterSubmit(c, form)
    \/ \E c \in Clients : RegisterCheckUsername(c)
    \/ \E c \in Clients : RegisterCheckEmail(c)
    \/ \E c \in Clients, ok \in BOOLEAN : RegisterCommit(c, ok)
    \/ \E c \in Clients : Logout(c)

SpecRegister == InitRegister /\ [][NextRegister]_vars

\* The database once user 1 has filled in the questionnaire; user 2 has not.
InitTips ==
    /\ mealPreferences = << >>
    /\ prefReq = [w \in {"w1"} |-> IdlePref]
    /\ mealPlans = << >>
    /\ gen = IdleGen
    /\ subscription_active = [u \in Users |-> FALSE]
    /\ wellnessProfiles = << [id |-> 1, user_id |-> 1] >>
    /\ wellnessPlans = << >>
    /\ InitAccounts
    /\ InitNoTips
    /\ InitNoWorkouts
    /\ response = NoResponse

\* /wellness-tip served by two workers, over the days.
NextTips ==
    \/ \E w \in TipWorkers, u \in Users : TipRequest(w, u)
    \/ \E w \in TipWorkers, ok \in BOOLEAN : TipGenerate(w, ok)
    \/ \E w \in TipWorkers, ok \in BOOLEAN : TipMarkViewed(w, ok)
    \/ NextDay

SpecTips == InitTips /\ [][NextTips]_vars

\* POST /workout/log of both users, under every request of WorkoutForms.
NextWorkout ==
    \E u \in Users, form \in WorkoutForms, ok \in BOOLEAN : LogWorkout(u, form, ok)

SpecWorkout == Init /\ [][NextWorkout]_vars

\* ---------------------------------------------------------------- claims
Rows(table) == {table[i] : i \in 1..Len(table)}

\* C1: a view request finds a plan exactly when a row with that id belongs to
\* the requesting user, and then returns that row; in every other case, the id
\* saved for another user or never saved, the response is the same 404 that
\* carries no plan.
C1_OwnershipIsolation ==
    response.route = "view_meal_plan" =>
        LET owned == {r \in Rows(mealPlans) :
                         r.id = response.plan_id /\ r.user_id = response.user}
        IN IF owned # {}
           THEN /\ response.status = "200"
                /\ Len(response.plans) = 1
                /\ response.plans[1] \in owned
           ELSE response =
                  [Respond("view_meal_plan", response.user, "404", "", "")
                     EXCEPT !.plan_id = response.plan_id]

\* A user has just asked for a plan that is stored for the other user.
C1_Witness ==
    /\ response.route = "view_meal_plan"
    /\ response.status = "404"
    /\ \E r \in Rows(mealPlans) :
          r.id = response.plan_id /\ r.user_id # response.user

\* C2: no two stored MealPreference rows have the same user and meal type.
C2_OnePreferencePerPair ==
    \A i, j \in 1..Len(mealPreferences) :
        (/\ mealPreferences[i].user_id = mealPreferences[j].user_id
         /\ mealPreferences[i].meal_type = mealPreferences[j].meal_type)
        => i = j

TargetInBounds(f, data) ==
    /\ data # None
    /\ data[1] \in 0..FieldMax(f)

\* C3: every stored MealPreference has each target present and within
\* 0..its maximum, and no form with a target missing or out of its bounds gets
\* past validation to the statements that write.
C3_TargetsWithinBounds ==
    /\ \A r \in Rows(mealPreferences) :
          \A f \in TargetFields : TargetInBounds(f, r[f])
    /\ \A w \in DOMAIN prefReq :
          prefReq[w].pc = "commit" =>
              \A f \in TargetFields : TargetInBounds(f, prefReq[w].form[1][f])

\* A form was just rejected while a row with every target at its maximum and
\* one with every target at 0 are stored.
C3_Witness ==
    /\ response.route = "meal_preferences"
    /\ response.status = "rejected"
    /\ \E r \in Rows(mealPreferences) : r.calories_target = Some(CaloriesMax)
    /\ \E r \in Rows(mealPreferences) : r.fat_target = Some(0)

\* The dates of the day-entries of a stored plan that parse.
EntryDates(row) ==
    LET plan == json_loads(row.meal_plan_data).meal_plan IN
    {strptime(plan[i].date[1])[1] :
        i \in {k \in 1..Len(plan) :
                  plan[k].date # None /\ strptime(plan[k].date[1]) # None}}

\* C4: start_date is the least and end_date the greatest date of the
\* day-entries of every stored plan.
C4_DateRangeIsMinMax ==
    \A r \in Rows(mealPlans) :
        /\ r.start_date \in EntryDates(r)
        /\ r.end_date \in EntryDates(r)
        /\ \A d \in EntryDates(r) : r.start_date <= d /\ d <= r.end_date

\* C5: every stored plan has at least one day-entry, end_date >= start_date,
\* and each day-entry has a date within [start_date, end_date].
C5_PlanWellFormed ==
    \A r \in Rows(mealPlans) :
        LET plan == json_loads(r.meal_plan_data).meal_plan IN
        /\ plan # << >>
        /\ r.end_date >= r.start_date
        /\ \A i \in 1..Len(plan) :
              /\ plan[i].date # None
              /\ strptime(plan[i].date[1]) # None
              /\ strptime(plan[i].date[1])[1] >= r.start_date
              /\ strptime(plan[i].date[1])[1] <= r.end_date

\* The calls a request has made when it fails for the given reason.
CallsUntil(reason) ==
    CASE reason = "no_preferences" -> << "load_preferences" >>
      [] reason = "generation_error" ->
            << "load_preferences", "generate_meal_plan" >>
      [] reason = "derivation_error" ->
            << "load_preferences", "generate_meal_plan", "generate_shopping_list" >>
      [] reason = "date_error" ->
            << "load_preferences", "generate_meal_plan", "generate_shopping_list",
               "date_range" >>
      [] reason = "storage_error" ->
            << "load_preferences", "generate_meal_plan", "generate_shopping_list",
               "date_range", "commit" >>
      [] OTHER -> << >>

\* C6: a generation request that has failed made no call after the one that
\* failed, and the MealPlan table is what it was when the request arrived.
C6_NoPartialPersistence ==
    gen.pc = "Failed" =>
        /\ gen.reason \in {"no_preferences", "generation_error", "derivation_error",
                           "date_error", "storage_error"}
        /\ gen.trace = CallsUntil(gen.reason)
        /\ mealPlans = gen.before

\* The commit of a second plan has just failed.
C6_Witness ==
    /\ gen.pc = "Failed"
    /\ gen.reason = "storage_error"
    /\ mealPlans # << >>

\* The stage changes of one request: the order of the specification ...
SpecStageOrder ==
    {<<"idle", "Requested">>, <<"Requested", "Generating">>,
     <<"Generating", "Normalizing">>, <<"Normalizing", "Deriving">>,
     <<"Deriving", "Persisted">>,
     <<"Persisted", "idle">>, <<"Failed", "idle">>}
    \cup {<<st, "Failed">> :
            st \in {"Requested", "Generating", "Normalizing", "Deriving"}}

\* ... and the order of the handler, which derives the shopping list before
\* it reads the dates.
CodeStageOrder ==
    {<<"idle", "Requested">>, <<"Requested", "Generating">>,
     <<"Generating", "Deriving">>, <<"Deriving", "Normalizing">>,
     <<"Normalizing", "Persisted">>,
     <<"Persisted", "idle">>, <<"Failed", "idle">>}
    \cup {<<st, "Failed">> :
            st \in {"Requested", "Generating", "Normalizing", "Deriving"}}

StageStep(order) ==
    gen'.pc # gen.pc =>
        /\ <<gen.pc, gen'.pc>> \in order
        /\ gen'.pc = "Failed" => gen'.reason # ""
        /\ gen'.pc = "Persisted" =>
              /\ gen'.reason = ""
              /\ gen'.trace = CallsUntil("storage_error")
              /\ Len(mealPlans') = Len(mealPlans) + 1

HasItsList(row) ==
    row.shopping_list = json_dumps(Derive(json_loads(row.meal_plan_data)))

\* C8: every stored plan, and every plan a view or list request returns,
\* carries the shopping list derived from its day-entries.
C8_PlanCarriesList ==
    /\ \A r \in Rows(mealPlans) : HasItsList(r)
    /\ response.route \in {"view_meal_plan", "list_meal_plans"} =>
          \A i \in 1..Len(response.plans) : HasItsList(response.plans[i])

\* A list request has returned a plan while another generation request is
\* about to save.
C8_Witness ==
    /\ response.route = "list_meal_plans"
    /\ response.plans # << >>
    /\ gen.pc = "Normalizing"

\* C9: no step changes or removes a stored plan; the step that persists adds
\* one row, with an id no earlier row has, at the end; every other step leaves
\* the table as it is.
C9_AppendOnly ==
    [][/\ Len(mealPlans') >= Len(mealPlans)
       /\ \A i \in 1..Len(mealPlans) : mealPlans'[i] = mealPlans[i]
       /\ IF gen'.pc = "Persisted" /\ gen.pc # "Persisted"
          THEN /\ Len(mealPlans') = Len(mealPlans) + 1
               /\ mealPlans'[Len(mealPlans')].user_id = gen.user
               /\ \A r \in Rows(mealPlans) : r.id # mealPlans'[Len(mealPlans')].id
          ELSE mealPlans' = mealPlans]_vars

\* A user has generated a second plan.
C9_Witness ==
    /\ Len(mealPlans) = 2
    /\ mealPlans[1].user_id = mealPlans[2].user_id
    /\ gen.pc = "Persisted"

\* C10: a step that calls a generation service or stores a plan does so for a
\* user whose subscription is active.
C10_GatedByEntitlement ==
    [][/\ (gen'.trace # gen.trace /\ gen'.trace # << >>
              /\ gen'.trace[Len(gen'.trace)] = "generate_meal_plan")
          => subscription_active[gen.user]
       /\ Len(mealPlans') > Len(mealPlans) => subscription_active[gen.user]
       /\ response'.service_called => subscription_active[response'.user]
       /\ Len(wellnessPlans') > Len(wellnessPlans)
          => subscription_active[response'.user]]_vars

\* A target that is present and outside 0..its maximum.
OutOfRange(f, data) ==
    data # None /\ data[1] \notin 0..FieldMax(f)

Ascending(entries) ==
    \A i, j \in 1..Len(entries) :
        i < j =>
            /\ entries[i].date # None /\ entries[j].date # None
            /\ strptime(entries[i].date[1]) # None
            /\ strptime(entries[j].date[1]) # None
            /\ strptime(entries[i].date[1])[1] <= strptime(entries[j].date[1])[1]

\* The two lists hold the same day-entries, each as often.
SameEntries(a, b) ==
    /\ Len(a) = Len(b)
    /\ \A e \in {a[i] : i \in 1..Len(a)} \cup {b[i] : i \in 1..Len(b)} :
          Cardinality({i \in 1..Len(a) : a[i] = e})
              = Cardinality({i \in 1..Len(b) : b[i] = e})

\* C12: once a generated plan is saved, reading it back by its id as its owner
\* yields the generated day-entries, in ascending order of date, whatever the
\* order the generation service returned them in.
C12_RoundTripAscending ==
    gen.pc = "Persisted" =>
        LET hits == MealPlanLookup(mealPlans, Len(mealPlans), gen.user) IN
        /\ hits # {}
        /\ LET back == get_meal_plan(mealPlans[CHOOSE i \in hits : TRUE]).meal_plan
           IN /\ SameEntries(back, gen.meal_plan_data[1].meal_plan)
              /\ Ascending(back)

\* The errors a generation request fails with, one for each stage that raises.
FailureReasons ==
    {"generation_error", "derivation_error", "date_error", "storage_error"}

\* What the end user sees of a response: the message and where it leads.
UserVisible(r) == << r.flash, r.detail, r.redirect >>

\* C13: a failed generation request shows the end user the same message and
\* the same redirect whatever stage failed and whatever error was raised.
C13_FailureOutcomeUniform ==
    (response.route = "generate_new_meal_plan" /\ response.status = "error") =>
        \A reason \in FailureReasons :
            UserVisible(response) = UserVisible(FailureResponse(reason))

\* C14: no two User rows share a username or an email, however the checks and
\* the commits of registration attempts interleave, and an attempt rejected
\* for a duplicate username or email, or whose commit fails, leaves the users
\* unchanged and logs nobody in.
C14_UniqueAccounts ==
    [][/\ \A i, j \in 1..Len(users') :
             (users'[i].username = users'[j].username
                 \/ users'[i].email = users'[j].email) => i = j
       /\ (/\ response'.route = "register"
           /\ response'.status \in {"duplicate_username", "duplicate_email",
                                    "error"})
             => (users' = users /\ session' = session)]_vars

\* An attempt whose checks had passed just failed at its commit, while the
\* other client's account with the same email is stored and logged in.
C14_Witness ==
    /\ response.route = "register"
    /\ response.status = "error"
    /\ \E c \in Clients :
          /\ session[c] # None
          /\ users[session[c][1]].email = response.form[1].email
          /\ users[session[c][1]].username # response.form[1].username

\* C15: a user has at most one WellnessTip for a calendar day, also when two
\* of the user's requests interleave; a tip that a request returned is viewed,
\* and a viewed tip never becomes unviewed.
C15_OneTipPerUserPerDay ==
    [][/\ \A i, j \in 1..Len(wellnessTips') :
             (/\ wellnessTips'[i].user_id = wellnessTips'[j].user_id
              /\ wellnessTips'[i].day = wellnessTips'[j].day) => i = j
       /\ response'.tip # None => response'.tip[1].is_viewed
       /\ \A i \in 1..Len(wellnessTips) :
             wellnessTips[i].is_viewed => wellnessTips'[i].is_viewed]_vars

\* The listed exercises of a request that have both a weight and a reps
\* value, in the order listed.
WithWeightAndReps(form) ==
    LET Both(e) == Truthy(form.weight[e]) /\ Truthy(form.reps[e])
    IN SelectSeq(form.exercises, Both)

\* C16: a POST /workout/log either persists one WorkoutLog of the user together
\* with one ExerciseProgress for every listed exercise that has both a weight
\* and a reps value, and then every conversion and the commit succeeded, or it
\* persists no row at all.
C16_WorkoutAllOrNothing ==
    [][response'.route = "log_workout" =>
         LET form == response'.form[1]
             due == WithWeightAndReps(form)
             n == Len(workoutLogs)
             m == Len(exerciseProgress)
         IN \/ /\ response'.status = "ok"
               /\ IntField(form.duration) # None
               /\ IntField(form.calories_burned) # None
               /\ Len(workoutLogs') = n + 1
               /\ SubSeq(workoutLogs', 1, n) = workoutLogs
               /\ workoutLogs'[n + 1].user_id = response'.user
               /\ json_loads(workoutLogs'[n + 1].exercises) = form.exercises
               /\ Len(exerciseProgress') = m + Len(due)
               /\ SubSeq(exerciseProgress', 1, m) = exerciseProgress
               /\ \A k \in 1..Len(due) :
                     /\ exerciseProgress'[m + k].exercise_name = due[k]
                     /\ exerciseProgress'[m + k].user_id = response'.user
                     /\ Some(exerciseProgress'[m + k].weight)
                            = float(form.weight[due[k]][1])
                     /\ Some(exerciseProgress'[m + k].reps)
                            = int(form.reps[due[k]][1])
            \/ /\ response'.status = "error"
               /\ workoutLogs' = workoutLogs
               /\ exerciseProgress' = exerciseProgress]_vars

\* A request whose first exercise converts and whose second does not was just
\* answered with the error, while an earlier workout and its progress are
\* stored.
C16_Witness ==
    /\ response.route = "log_workout"
    /\ response.status = "error"
    /\ response.form[1].exercises = << "squat", "row" >>
    /\ response.form[1].weight["squat"] = Some("60")
    /\ response.form[1].reps["squat"] = Some("8")
    /\ response.form[1].weight["row"] = Some("2.5")
    /\ response.form[1].reps["row"] = Some("2.5")
    /\ workoutLogs # << >>
    /\ exerciseProgress # << >>

====
